---- MODULE Spec2Model ----
(***************************************************************************)
(* Model of src/lib/ai/embeddings.ts: generateEmbedding (the bounded retry *)
(* loop around the embeddings endpoint), generateUserSkillsEmbedding (the  *)
(* accessor with the module-level single-slot cache) and                   *)
(* clearUserSkillsCache.                                                   *)
(*                                                                         *)
(* JavaScript runs each continuation to completion, so one action is the   *)
(* code between two suspension points (await fetch, await setTimeout,      *)
(* await of the preference query).  The reads of the response body         *)
(* (response.text(), response.json()) touch no shared state and are folded *)
(* into the step that receives the response.                               *)
(*                                                                         *)
(* An embedding (number[]) is abstracted to its length and a tag standing  *)
(* for its contents: [len |-> n, tag |-> t].                               *)
(***************************************************************************)
EXTENDS Integers, Sequences, FiniteSets, TLC

VARIABLES
    JINA_API_KEY,               \* TRUE iff process.env.JINA_API_KEY is set
    cachedUserSkillsEmbedding,  \* the module-level cache (null or a vector)
    user_preferences,           \* the user_preferences table (external store)
    call,                       \* call[p]: the invocation running in slot p
    callsLeft,                  \* invocations the callers may still start
    recording,                  \* TRUE iff each call's responses are logged
    resetPending,               \* TRUE from a reset until the next
                                \* generateUserSkillsEmbedding call starts
    trigger                     \* the ManualPipelineTrigger component

vars == <<JINA_API_KEY, cachedUserSkillsEmbedding, user_preferences, call,
          callsLeft, recording, resetPending, trigger>>

---------------------------------------------------------------------------
(* Bounds of the model *)

MaxCalls == 3     \* invocations started in one run of the concurrent model
MaxCallsAll == 2  \* invocations started in one run of the whole-module model
MaxClicks == 2    \* activations of the trigger control in one run
NumIds == 2       \* distinguishable payloads (vector tags, bodies, exceptions)

Procs == {"p1", "p2"}      \* invocations that can be in flight together

---------------------------------------------------------------------------
(* Values *)

\* Line 17.  (More: a loop bound one too high.)
maxRetriesMore == 3 + 1
maxRetries == 3
EmbeddingDim == 768

null == [len |-> -1, tag |-> 0]           \* JavaScript null (no vector)
Vec(n, t) == [len |-> n, tag |-> t]
WrongLens == {0, EmbeddingDim - 1, EmbeddingDim + 1}
Vectors == {Vec(n, 1) : n \in WrongLens} \cup {Vec(EmbeddingDim, t) : t \in 1..NumIds}

\* The parsed JSON body of a response, as far as the code inspects it:
\* result.data (absent / not an array / an array) and result.data[0].embedding
\* (absent / not an array / an array).  "unparseable" makes response.json() throw.
Doc(d, e, v) == [data |-> d, embedding |-> e, vec |-> v]
NoDoc == Doc("none", "none", null)
Docs ==
    {Doc("unparseable", "none", null), Doc("absent", "none", null),
     Doc("notArray", "none", null), Doc("emptyArray", "none", null),
     Doc("array", "absent", null), Doc("array", "notArray", null)}
    \cup {Doc("array", "array", v) : v \in Vectors}

\* What `await fetch(...)` produces: a rejection (exc > 0 names the exception
\* object) or a response with a status, an error text and a JSON body.
Rejection(i) == [exc |-> i, status |-> 0, text |-> 0, doc |-> NoDoc]
Response(s, t, d) == [exc |-> 0, status |-> s, text |-> t, doc |-> d]
NoResponse == Response(0, 0, NoDoc)
OkStatuses == {200}
ErrStatuses == {400, 429, 500, 503}
Responses ==
    {Rejection(i) : i \in 1..NumIds}
    \cup {Response(s, t, NoDoc) : s \in ErrStatuses, t \in 1..NumIds}
    \cup {Response(s, 0, d) : s \in OkStatuses, d \in Docs}

\* Error objects, named after the throw site.
Err(type, status, text, n) == [type |-> type, status |-> status, text |-> text, n |-> n]
NoError == Err("none", 0, 0, 0)
ErrKeyNotSet == Err("KeyNotSet", 0, 0, 0)              \* line 14
ErrApi(s, t) == Err("ApiStatus", s, t, 0)              \* line 57
ErrInvalidFormat == Err("InvalidFormat", 0, 0, 0)      \* line 66
ErrNotArray == Err("NotArray", 0, 0, 0)                \* line 72
ErrDimension(n) == Err("Dimension", 0, 0, n)           \* line 77
ErrExhausted == Err("Exhausted", 0, 0, 0)              \* line 99
ErrPrefsNotSet == Err("PrefsNotSet", 0, 0, 0)          \* line 119
ErrFetch(i) == Err("FetchRejected", 0, 0, i)           \* thrown by await fetch
ErrSyntax == Err("JsonSyntax", 0, 0, 0)                \* thrown by response.json()

\* The preference store: no row, or one row with a skills list.
NoRow == [row |-> FALSE, skills |-> <<>>]
Row(s) == [row |-> TRUE, skills |-> s]
PrefStates == {NoRow, Row(<<>>), Row(<<"react", "node">>)}
Texts == {<<"job">>}

---------------------------------------------------------------------------
(* generateEmbedding: the body of one loop iteration *)

\* What one iteration does once fetch has settled.
Return(v) == [act |-> "return", vec |-> v, error |-> NoError, delay |-> 0]
Throw(e) == [act |-> "throw", vec |-> null, error |-> e, delay |-> 0]
Wait(d) == [act |-> "wait", vec |-> null, error |-> NoError, delay |-> d]

ResponseOk(r) == r.status \in 200..299

\* Line 44.  (Linear: a backoff that grows by attempt instead of doubling.)
RateLimitDelayLinear(attempt) == attempt * 5000
RateLimitDelay(attempt) == (2 ^ attempt) * 5000
\* Line 53.
ServerErrorDelay(attempt) == 5000
\* Line 93.  (Shared: the rate-limit formula reused for exceptions.)
BackoffDelayShared(attempt) == (2 ^ attempt) * 5000
BackoffDelay(attempt) == (2 ^ attempt) * 2000

\* Line 43.  (Always: the test without its attempt bound.)
RetryRateLimitAlways(status, attempt) == status = 429
RetryRateLimit(status, attempt) == status = 429 /\ attempt < maxRetries
\* Line 51.  (Always: the test without its attempt bound.)
RetryServerErrorAlways(status, attempt) == status >= 500
RetryServerError(status, attempt) == status >= 500 /\ attempt < maxRetries

\* Lines 38-58: the response is not ok.
NotOkBranch(r, attempt) ==
    IF RetryRateLimit(r.status, attempt) THEN Wait(RateLimitDelay(attempt))
    ELSE IF RetryServerError(r.status, attempt) THEN Wait(ServerErrorDelay(attempt))
    ELSE Throw(ErrApi(r.status, r.text))

\* Line 76.  (Unchecked: the dimension test left out.)
DimensionUnchecked(embedding) == TRUE
DimensionOk(embedding) == embedding.len = EmbeddingDim

\* Lines 60-82: parse and validate the body, return the embedding.
ParseBranch(r) ==
    IF r.doc.data = "unparseable" THEN Throw(ErrSyntax)
    ELSE IF r.doc.data # "array" THEN Throw(ErrInvalidFormat)
    ELSE IF r.doc.embedding # "array" THEN Throw(ErrNotArray)
    ELSE IF ~DimensionOk(r.doc.vec) THEN Throw(ErrDimension(r.doc.vec.len))
    ELSE Return(r.doc.vec)

\* Lines 20-83: the try block.
TryBlock(r, attempt) ==
    IF r.exc > 0 THEN Throw(ErrFetch(r.exc))
    ELSE IF ~ResponseOk(r) THEN NotOkBranch(r, attempt)
    ELSE ParseBranch(r)

LastAttempt(attempt) == attempt = maxRetries

\* Lines 84-96: the catch block receives whatever the try block threw.
CatchBlock(error, attempt) ==
    IF LastAttempt(attempt) THEN Throw(error)
    ELSE Wait(BackoffDelay(attempt))

\* Lines 20-96: one iteration.
Iteration(r, attempt) ==
    LET t == TryBlock(r, attempt)
    IN  IF t.act = "throw" THEN CatchBlock(t.error, attempt) ELSE t

---------------------------------------------------------------------------
(* Invocations *)

IdleCall ==
    [fn |-> "none", pc |-> "idle", text |-> <<>>, attempt |-> 0, delay |-> 0,
     outcome |-> "none", result |-> null, error |-> NoError,
     nreq |-> 0, prefReads |-> 0, cacheAtStart |-> null, lookup |-> "none",
     statuses |-> <<>>, resp |-> NoResponse, waits |-> <<>>,
     after |-> {}, resetSince |-> FALSE, firstAfterReset |-> FALSE,
     readBeforeReset |-> FALSE]

InFlight(p) == call[p].pc \in {"awaitPrefs", "awaitFetch", "awaitTimer"}
Free(p) == call[p].pc \in {"idle", "done"}
Done(p) == call[p].pc = "done"

\* The call ends; readBeforeReset describes a call in flight only.
Returned(c, v) ==
    [c EXCEPT !.pc = "done", !.outcome = "returned", !.result = v,
              !.readBeforeReset = FALSE]
Threw(c, e) ==
    [c EXCEPT !.pc = "done", !.outcome = "threw", !.error = e,
              !.readBeforeReset = FALSE]

\* Line 13.  (Never: the credential test left out.)
KeyNeverMissing == FALSE
KeyMissing == ~JINA_API_KEY

\* Lines 12-36: entry of generateEmbedding(text) up to the first await.
EnterGenerateEmbedding(c, text) ==
    IF KeyMissing THEN Threw(c, ErrKeyNotSet)
    ELSE [c EXCEPT !.pc = "awaitFetch", !.text = text, !.attempt = 1, !.nreq = 1]

\* A caller invokes generateEmbedding(text) directly.
StartEmbedding(p, text) ==
    /\ Free(p)
    /\ callsLeft > 0
    /\ callsLeft' = callsLeft - 1
    /\ call' = [q \in Procs |->
                  IF q = p
                  THEN EnterGenerateEmbedding(
                           [IdleCall EXCEPT !.fn = "generateEmbedding"], text)
                  ELSE [call[q] EXCEPT !.after = @ \ {p}]]
    /\ UNCHANGED <<JINA_API_KEY, cachedUserSkillsEmbedding, user_preferences,
                   recording, resetPending,
                   trigger>>

Log(c, r, it) ==
    IF recording
    THEN [c EXCEPT !.statuses = Append(@, r.status), !.resp = r,
                   !.waits = IF it.act = "wait" THEN Append(@, it.delay) ELSE @]
    ELSE c

\* Line 127: only generateUserSkillsEmbedding assigns the returned embedding
\* to the cache.  (Always: generateEmbedding storing it itself.)
WritesCacheAlways(fn) == TRUE
WritesCache(fn) == fn = "generateUserSkillsEmbedding"

\* fetch settles with r: the rest of the iteration runs (lines 38-96); a
\* returned embedding is stored by generateUserSkillsEmbedding (lines 127-129).
FetchSettles(p, r) ==
    /\ call[p].pc = "awaitFetch"
    /\ LET it == Iteration(r, call[p].attempt)
           c == Log(call[p], r, it)
       IN  CASE it.act = "wait" ->
                  /\ call' = [call EXCEPT ![p] =
                                 [c EXCEPT !.pc = "awaitTimer", !.delay = it.delay]]
                  /\ UNCHANGED cachedUserSkillsEmbedding
             [] it.act = "throw" ->
                  /\ call' = [call EXCEPT ![p] = Threw(c, it.error)]
                  /\ UNCHANGED cachedUserSkillsEmbedding
             [] it.act = "return" ->
                  IF WritesCache(call[p].fn)
                  THEN /\ cachedUserSkillsEmbedding' = it.vec
                       /\ call' = [call EXCEPT ![p] =
                                      Returned(c, cachedUserSkillsEmbedding')]
                  ELSE /\ call' = [call EXCEPT ![p] = Returned(c, it.vec)]
                       /\ UNCHANGED cachedUserSkillsEmbedding
    /\ UNCHANGED <<JINA_API_KEY, user_preferences, callsLeft, recording, resetPending,
                   trigger>>

\* The setTimeout of line 46, 53 or 95 fires: attempt++ and the loop test of
\* line 19; the next fetch is issued, or the loop ends and line 99 throws.
TimerFires(p) ==
    /\ call[p].pc = "awaitTimer"
    /\ LET c == call[p]
           next == c.attempt + 1
       IN  call' = [call EXCEPT ![p] =
                      IF next <= maxRetries
                      THEN [c EXCEPT !.pc = "awaitFetch", !.attempt = next,
                                     !.delay = 0, !.nreq = @ + 1]
                      ELSE Threw([c EXCEPT !.attempt = next, !.delay = 0],
                                 ErrExhausted)]
    /\ UNCHANGED <<JINA_API_KEY, cachedUserSkillsEmbedding, user_preferences,
                   callsLeft, recording, resetPending,
                   trigger>>

---------------------------------------------------------------------------
(* generateUserSkillsEmbedding and clearUserSkillsCache *)

RECURSIVE Join(_)
\* prefs.skills.join(', '), the text as the sequence of its pieces.
Join(skills) ==
    IF Len(skills) = 0 THEN <<>>
    ELSE IF Len(skills) = 1 THEN <<skills[1]>>
    ELSE <<skills[1], ", ">> \o Join(Tail(skills))

\* Line 107: if (cachedUserSkillsEmbedding).  (Never: the cache not consulted.)
CacheNeverHit == FALSE
CacheHit == cachedUserSkillsEmbedding # null

\* Lines 105-116: a caller invokes generateUserSkillsEmbedding(); it returns
\* the cached vector or issues the preference query and suspends.
StartUserSkills(p) ==
    /\ Free(p)
    /\ callsLeft > 0
    /\ callsLeft' = callsLeft - 1
    /\ resetPending' = FALSE
    /\ LET c == [IdleCall EXCEPT
                    !.fn = "generateUserSkillsEmbedding",
                    !.cacheAtStart = cachedUserSkillsEmbedding,
                    !.after = {q \in Procs \ {p} : Done(q)},
                    !.firstAfterReset =
                        resetPending /\ \A q \in Procs \ {p} : ~InFlight(q)]
       IN  call' = [q \in Procs |->
                      IF q = p
                      THEN IF CacheHit
                           THEN Returned(c, cachedUserSkillsEmbedding)
                           ELSE [c EXCEPT !.pc = "awaitPrefs", !.prefReads = 1]
                      ELSE [call[q] EXCEPT !.after = @ \ {p}]]
    /\ UNCHANGED <<JINA_API_KEY, cachedUserSkillsEmbedding, user_preferences,
                   recording,
                   trigger>>

\* Line 118: error || !prefs || !prefs.skills.length
\* (NoLength: the test of the skills list left out.)
PrefsUnusableNoLength(error, prefs) == error \/ ~prefs.row
PrefsUnusable(error, prefs) == error \/ ~prefs.row \/ Len(prefs.skills) = 0

\* What the query found, for the record of the call.
LookupSaw(failed) ==
    IF failed THEN "error"
    ELSE IF ~user_preferences.row THEN "missing"
    ELSE IF Len(user_preferences.skills) = 0 THEN "empty"
    ELSE "found"

\* Lines 113-127: the query settles with the row now in the store (.single()
\* reports an error when there is no row; failed is any other query error);
\* the code throws or calls generateEmbedding(skillsText).
PrefsSettle(p, failed) ==
    /\ call[p].pc = "awaitPrefs"
    /\ LET error == failed \/ ~user_preferences.row
           prefs == IF error THEN NoRow ELSE user_preferences
           c == [call[p] EXCEPT !.lookup = LookupSaw(failed)]
       IN  call' = [call EXCEPT ![p] =
                      IF PrefsUnusable(error, prefs)
                      THEN Threw(c, ErrPrefsNotSet)
                      ELSE EnterGenerateEmbedding(c, Join(prefs.skills))]
    /\ UNCHANGED <<JINA_API_KEY, cachedUserSkillsEmbedding, user_preferences,
                   callsLeft, recording, resetPending,
                   trigger>>

\* Line 134: the value clearUserSkillsCache assigns.
ClearedValue == null

\* Lines 133-135.
clearUserSkillsCache ==
    /\ cachedUserSkillsEmbedding' = ClearedValue
    /\ resetPending' = TRUE
    /\ call' = [q \in Procs |->
                  IF call[q].pc = "idle" THEN call[q]
                  ELSE [call[q] EXCEPT
                           !.resetSince = TRUE,
                           !.readBeforeReset =
                               \/ @
                               \/ /\ call[q].fn = "generateUserSkillsEmbedding"
                                  /\ call[q].pc \in {"awaitFetch", "awaitTimer"}]]
    /\ UNCHANGED <<JINA_API_KEY, user_preferences, callsLeft, recording, trigger>>

\* The stored preferences are edited outside this module.
EditPreferences(s) ==
    /\ s # user_preferences
    /\ user_preferences' = s
    /\ UNCHANGED <<JINA_API_KEY, cachedUserSkillsEmbedding, call, callsLeft,
                   recording, resetPending,
                   trigger>>

---------------------------------------------------------------------------
(* The trigger control: src/unnamed/part_000, ManualPipelineTrigger *)

\* What the pipeline endpoint can answer.  A body is unparseable
\* (response.json() rejects), the JSON value null, or an object; in an object
\* each count is absent (data.scraped, data.processed or the field in it is
\* missing), zero or positive, and the error string is absent or present.
absent == -1
Counts == {absent, 0, 5}
PipelineStatuses == {200, 201, 401, 500}
PipelineErrors == {"", "Unauthorized"}
Body(kind, jobsScraped, success, error) ==
    [kind |-> kind, jobsScraped |-> jobsScraped, success |-> success,
     error |-> error]
Bodies ==
    {Body("unparseable", absent, absent, ""), Body("null", absent, absent, "")}
    \cup {Body("object", a, b, e) : a \in Counts, b \in Counts,
                                    e \in PipelineErrors}
NoBody == Body("none", absent, absent, "")

\* fetch rejects with an Error (TypeError "Failed to fetch") or, thrown by a
\* wrapper, with a value that is not an Error.
PipelineResponse(rejected, status, body) ==
    [rejected |-> rejected, status |-> status, body |-> body]
PipelineResponses ==
    {PipelineResponse("no", s, b) : s \in PipelineStatuses, b \in Bodies}
    \cup {PipelineResponse(k, 0, NoBody) : k \in {"Error", "value"}}
NoPipelineResponse == PipelineResponse("none", 0, NoBody)

\* An exception inside the try block of handleTrigger.
Thrown(isError, message) == [isError |-> isError, message |-> message]

\* The result state: null, or {success, message}; the message is kept as
\* its parts (the two counts of a success, the error string of a failure).
NoResult ==
    [set |-> FALSE, success |-> FALSE, text |-> "",
     jobsScraped |-> 0, jobsProcessed |-> 0]
Success(jobsScraped, jobsProcessed) ==
    [set |-> TRUE, success |-> TRUE, text |-> "Success!",
     jobsScraped |-> jobsScraped, jobsProcessed |-> jobsProcessed]
Failure(text) ==
    [set |-> TRUE, success |-> FALSE, text |-> text,
     jobsScraped |-> 0, jobsProcessed |-> 0]

\* Lines 32-33: `x || 0`, with undefined and 0 both falsy.
OrZeroKept(x) == x
OrZero(x) == IF x = absent \/ x = 0 THEN 0 ELSE x

\* Line 31: response.ok.
PipelineOk(status) == status \in 200..299

\* Lines 45-49.
CatchResult(error) ==
    Failure(IF error.isError THEN error.message ELSE "Network error")

\* Lines 29-44 on a response whose body parsed to `data`: reading a property
\* of null throws a TypeError, on either branch.
ResultOf(status, data) ==
    IF data.kind = "null"
    THEN CatchResult(Thrown(TRUE, "Cannot read properties of null"))
    ELSE IF PipelineOk(status)
    THEN Success(OrZero(data.jobsScraped), OrZero(data.success))
    ELSE Failure(IF data.error = "" THEN "Failed to run pipeline"
                 ELSE data.error)

\* Lines 18-49: the result handleTrigger sets once the fetch has settled.
HandleResponse(r) ==
    IF r.rejected = "Error" THEN CatchResult(Thrown(TRUE, "Failed to fetch"))
    ELSE IF r.rejected = "value" THEN CatchResult(Thrown(FALSE, ""))
    ELSE IF r.body.kind = "unparseable"
    THEN CatchResult(Thrown(TRUE, "Unexpected token"))
    ELSE ResultOf(r.status, r.body)

\* Line 51: the value the finally block gives isLoading.
FinallyLoadingStuck == TRUE
FinallyLoading == FALSE

\* Line 87: disabled={isLoading}.
DisabledNever == FALSE
Disabled == trigger.isLoading

IdleTrigger(clicks) ==
    [isLoading |-> FALSE, result |-> NoResult, pending |-> 0,
     clicksLeft |-> clicks, posts |-> 0, resp |-> NoPipelineResponse]

\* A click on the enabled button: lines 86-87, then handleTrigger up to the
\* await of fetch (lines 15-27).  React applies the state updates of a click
\* handler before it dispatches the next click, so the button is disabled
\* by the time another click can arrive.
Activate ==
    /\ ~Disabled
    /\ trigger.clicksLeft > 0
    /\ trigger' = [trigger EXCEPT !.clicksLeft = @ - 1,
                                  !.isLoading = TRUE,
                                  !.result = NoResult,
                                  !.pending = @ + 1,
                                  !.posts = @ + 1]
    /\ UNCHANGED <<JINA_API_KEY, cachedUserSkillsEmbedding, user_preferences,
                   call, callsLeft, recording, resetPending>>

\* The POST settles with r: lines 29-52, response.json() included.
PostSettles(r) ==
    /\ trigger.pending > 0
    /\ trigger' = [trigger EXCEPT !.result = HandleResponse(r),
                                  !.isLoading = FinallyLoading,
                                  !.pending = @ - 1,
                                  !.resp = r]
    /\ UNCHANGED <<JINA_API_KEY, cachedUserSkillsEmbedding, user_preferences,
                   call, callsLeft, recording, resetPending>>

---------------------------------------------------------------------------
(* Specifications *)

Start(calls, rec, clicks) ==
    /\ JINA_API_KEY \in BOOLEAN
    /\ cachedUserSkillsEmbedding = null
    /\ user_preferences \in PrefStates
    /\ call = [p \in Procs |-> IdleCall]
    /\ callsLeft = calls
    /\ recording = rec
    /\ resetPending = FALSE
    /\ trigger = IdleTrigger(clicks)

\* Concurrent invocations, responses not logged.
Init == Start(MaxCalls, FALSE, 0)

\* Accessor calls mixed with direct calls of generateEmbedding.
InitAll == Start(MaxCallsAll, FALSE, 0)

\* A single invocation whose provider responses are logged.
InitFetch == Start(1, TRUE, 0)

\* The trigger control on its own.
InitTrigger == Start(0, FALSE, MaxClicks)

\* generateUserSkillsEmbedding, its cache and the reset, run concurrently.
Next ==
    \/ \E p \in Procs : StartUserSkills(p)
    \/ \E p \in Procs, failed \in BOOLEAN : PrefsSettle(p, failed)
    \/ \E p \in Procs, r \in Responses : FetchSettles(p, r)
    \/ \E p \in Procs : TimerFires(p)
    \/ clearUserSkillsCache
    \/ \E s \in PrefStates : EditPreferences(s)

\* generateEmbedding called on its own.
NextFetch ==
    \/ \E p \in Procs, text \in Texts : StartEmbedding(p, text)
    \/ \E p \in Procs, r \in Responses : FetchSettles(p, r)
    \/ \E p \in Procs : TimerFires(p)

\* Every function of the module: the accessor, the reset and direct calls of
\* generateEmbedding, run concurrently.
NextAll ==
    \/ \E p \in Procs, text \in Texts : StartEmbedding(p, text)
    \/ \E p \in Procs : StartUserSkills(p)
    \/ \E p \in Procs, failed \in BOOLEAN : PrefsSettle(p, failed)
    \/ \E p \in Procs, r \in Responses : FetchSettles(p, r)
    \/ \E p \in Procs : TimerFires(p)
    \/ clearUserSkillsCache
    \/ \E s \in PrefStates : EditPreferences(s)

\* The trigger control: clicks and the settling of its POST.
NextTrigger ==
    \/ Activate
    \/ \E r \in PipelineResponses : PostSettles(r)

Spec == Init /\ [][Next]_vars
SpecAll == InitAll /\ [][NextAll]_vars
SpecFetch == InitFetch /\ [][NextFetch]_vars

\* Every request and every backoff timer eventually completes.
FetchFairness ==
    \A p \in Procs :
        /\ WF_vars(\E r \in Responses : FetchSettles(p, r))
        /\ WF_vars(TimerFires(p))
SpecFetchFair == InitFetch /\ [][NextFetch]_vars /\ FetchFairness

\* The pipeline POST eventually settles (response or rejection).
SpecTrigger ==
    /\ InitTrigger /\ [][NextTrigger]_vars
    /\ WF_vars(\E r \in PipelineResponses : PostSettles(r))

TypeOK ==
    /\ trigger.isLoading \in BOOLEAN
    /\ trigger.pending \in 0..MaxClicks
    /\ trigger.clicksLeft \in 0..MaxClicks
    /\ trigger.resp \in PipelineResponses \cup {NoPipelineResponse}
    /\ JINA_API_KEY \in BOOLEAN
    /\ cachedUserSkillsEmbedding \in Vectors \cup {null}
    /\ user_preferences \in PrefStates
    /\ callsLeft \in 0..(IF MaxCalls > MaxCallsAll THEN MaxCalls ELSE MaxCallsAll)
    /\ \A p \in Procs :
          /\ call[p].pc \in {"idle", "awaitPrefs", "awaitFetch", "awaitTimer", "done"}
          /\ call[p].attempt \in 0..(maxRetries + 1)
          /\ call[p].nreq \in 0..maxRetries

---------------------------------------------------------------------------
(* Vocabulary of the properties *)

\* The error taxonomy of the specification (section 7), by throw site: the
\* code throws plain Error objects.
ErrorClass(e) ==
    CASE e.type \in {"KeyNotSet", "PrefsNotSet"} -> "ConfigError"
      [] e.type \in {"ApiStatus", "InvalidFormat", "NotArray", "Dimension",
                     "Exhausted"} -> "ProviderError"
      [] e.type \in {"FetchRejected", "JsonSyntax"} -> "TransientNetworkError"
      [] OTHER -> "none"

\* A success-status response whose body carries a 768-element embedding.
WellFormed(r) ==
    /\ r.exc = 0
    /\ r.status \in 200..299
    /\ r.doc.data = "array"
    /\ r.doc.embedding = "array"
    /\ r.doc.vec.len = 768

\* A success-status response whose body parses but carries no embedding
\* array of 768 elements.
Malformed(r) ==
    /\ r.exc = 0
    /\ r.status \in 200..299
    /\ r.doc.data # "unparseable"
    /\ ~WellFormed(r)

RetryableStatus(s) == s = 429 \/ s >= 500

\* Attempt i of call c was followed by a wait of d ms: the timer armed after
\* response i had duration d, and request i + 1 is issued only once that
\* timer has fired.
FollowedByWait(c, i, d) ==
    /\ Len(c.waits) >= i
    /\ c.waits[i] = d
    /\ c.nreq >= i
    /\ c.nreq = i => (c.pc = "awaitTimer" /\ c.delay = d /\ Len(c.statuses) = i)
IsSkillsCall(c) == c.fn = "generateUserSkillsEmbedding"

---------------------------------------------------------------------------
(* Properties of generateEmbedding, checked under SpecFetch *)

\* C1: a 429 on attempt i < 3 is followed by a wait of exactly 2^i * 5000 ms,
\* during which request i + 1 has not been issued; when attempts 1 and 2
\* return 429 and attempt 3 a well-formed vector, the call has issued exactly
\* 3 requests, waited 10000 ms then 20000 ms, and returns the third
\* response's vector.
C1_RateLimitBackoff ==
    \A p \in Procs :
        LET c == call[p]
            n == Len(c.statuses)
        IN  /\ \A i \in 1..n :
                  (c.statuses[i] = 429 /\ i < 3) =>
                      FollowedByWait(c, i, (2 ^ i) * 5000)
            /\ (n = 3 /\ c.statuses[1] = 429 /\ c.statuses[2] = 429
                /\ WellFormed(c.resp)) =>
                      /\ c.pc = "done" /\ c.outcome = "returned"
                      /\ c.result = c.resp.doc.vec
                      /\ c.nreq = 3
                      /\ c.waits = <<10000, 20000>>

C1_Witness ==
    \E p \in Procs :
        /\ call[p].statuses = <<429, 429, 200>>
        /\ call[p].outcome = "returned"
        /\ call[p].waits = <<10000, 20000>>

\* C2: a response with a non-success status that is neither 429 nor >= 500
\* ends the call: it fails with the error carrying that status and body, and
\* no request follows it.
C2_ClientErrorNotRetried ==
    \A p \in Procs :
        LET c == call[p]
            n == Len(c.statuses)
        IN  \A i \in 1..n :
                (c.statuses[i] >= 300 /\ ~RetryableStatus(c.statuses[i])) =>
                    /\ i = n
                    /\ c.pc = "done" /\ c.outcome = "threw"
                    /\ ErrorClass(c.error) = "ProviderError"
                    /\ c.error.status = c.resp.status
                    /\ c.error.text = c.resp.text
                    /\ c.nreq = i

\* C3: a success-status response without an embedding array of 768 elements
\* ends the call with a ProviderError on any attempt; no request follows it.
C3_ValidationFailureIsHard ==
    \A p \in Procs :
        LET c == call[p]
            n == Len(c.statuses)
        IN  (n >= 1 /\ Malformed(c.resp)) =>
                /\ c.pc = "done" /\ c.outcome = "threw"
                /\ ErrorClass(c.error) = "ProviderError"
                /\ c.nreq = n

\* C4: a status >= 500 on attempt i < 3 is followed by a wait of 5000 ms
\* whatever i is; when each of the three attempts ends in 429 or >= 500, the
\* call has issued exactly 3 requests and fails with the error carrying the
\* status and body of the third response.
C4_ServerErrorsExhaust ==
    \A p \in Procs :
        LET c == call[p]
            n == Len(c.statuses)
        IN  /\ \A i \in 1..n :
                  (c.statuses[i] >= 500 /\ i < 3) => FollowedByWait(c, i, 5000)
            /\ (n = 3 /\ \A i \in 1..3 : RetryableStatus(c.statuses[i])) =>
                      /\ c.pc = "done" /\ c.outcome = "threw"
                      /\ ErrorClass(c.error) = "ProviderError"
                      /\ c.error.status = c.statuses[3]
                      /\ c.error.status = c.resp.status
                      /\ c.error.text = c.resp.text
                      /\ c.nreq = 3

C4_Witness ==
    \E p \in Procs :
        /\ call[p].statuses = <<500, 500, 500>>
        /\ call[p].outcome = "threw"
        /\ call[p].waits = <<5000, 5000>>
        /\ call[p].error.text = 2

\* C5: without the credential a generateEmbedding call is over as soon as it
\* starts: it has thrown the ConfigError, issued no request and armed no timer.
C5_MissingKeyFailsAtOnce ==
    \A p \in Procs :
        (call[p].fn = "generateEmbedding" /\ ~JINA_API_KEY) =>
            /\ call[p].pc = "done" /\ call[p].outcome = "threw"
            /\ call[p].error.type = "KeyNotSet"
            /\ ErrorClass(call[p].error) = "ConfigError"
            /\ call[p].nreq = 0
            /\ call[p].attempt = 0
            /\ call[p].delay = 0 /\ call[p].waits = <<>>

C5_Witness ==
    \E p \in Procs :
        call[p].fn = "generateEmbedding" /\ ~JINA_API_KEY /\ call[p].pc = "done"

\* C6: a returned value is the embedding of the response to the last request
\* issued, and has exactly 768 elements.
C6_ReturnsLastEmbedding ==
    \A p \in Procs :
        LET c == call[p]
        IN  (c.fn = "generateEmbedding" /\ c.outcome = "returned") =>
                /\ Len(c.statuses) = c.nreq
                /\ c.resp.exc = 0
                /\ c.resp.doc.embedding = "array"
                /\ c.result = c.resp.doc.vec
                /\ c.result.len = 768

\* Returned on attempt 3 after two responses that did not yield a vector.
C6_Witness ==
    \E p \in Procs :
        /\ call[p].outcome = "returned"
        /\ call[p].statuses = <<200, 200, 200>>
        /\ call[p].result = Vec(768, 2)

\* C7: a rejected fetch on attempt i < 3 is followed by a wait of exactly
\* 2^i * 2000 ms, after which the next request is issued; a rejected fetch on
\* attempt 3 ends the call with that same exception, no wait and no request
\* after it.  (status 0 in the log stands for a rejected fetch.)
C7_ExceptionBackoff ==
    \A p \in Procs :
        LET c == call[p]
            n == Len(c.statuses)
        IN  /\ \A i \in 1..n :
                  (c.statuses[i] = 0 /\ i < 3) =>
                      FollowedByWait(c, i, (2 ^ i) * 2000)
            /\ c.pc = "awaitFetch" => (c.nreq = n + 1 /\ Len(c.waits) = n)
            /\ (n = 3 /\ c.statuses[3] = 0) =>
                      /\ c.pc = "done" /\ c.outcome = "threw"
                      /\ c.error.type = "FetchRejected"
                      /\ c.error.n = c.resp.exc
                      /\ c.nreq = 3
                      /\ Len(c.waits) = 2 /\ c.delay = 0

C7_Witness ==
    \E p \in Procs :
        /\ call[p].statuses = <<0, 0, 0>>
        /\ call[p].waits = <<4000, 8000>>
        /\ call[p].outcome = "threw"
        /\ call[p].error.n = 2

---------------------------------------------------------------------------
(* Properties of generateUserSkillsEmbedding and its cache, checked under Spec *)

\* C8: once the cache is populated, the vector that calls read from it stays
\* the same until clearUserSkillsCache empties it: no step replaces a cached
\* vector by another vector.
C8_SameVectorUntilReset ==
    [][(cachedUserSkillsEmbedding # null /\ cachedUserSkillsEmbedding' # null)
          => cachedUserSkillsEmbedding' = cachedUserSkillsEmbedding]_vars

\* A call that started while the cache held a value returned that value
\* at once, without a provider request or a preference read.
ServedFromCache(c) ==
    (c.pc # "idle" /\ IsSkillsCall(c) /\ c.cacheAtStart # null) =>
        /\ c.pc = "done" /\ c.outcome = "returned"
        /\ c.result = c.cacheAtStart
        /\ c.nreq = 0
        /\ c.prefReads = 0

\* Call b started after call a had returned a vector, with no reset since a
\* started; a found the cache empty.
Sequential(a, b) ==
    /\ a # b
    /\ IsSkillsCall(call[a]) /\ IsSkillsCall(call[b])
    /\ call[a].pc = "done" /\ call[a].outcome = "returned"
    /\ call[b].pc = "done" /\ call[b].outcome = "returned"
    /\ a \in call[b].after
    /\ ~call[a].resetSince
    /\ call[a].cacheAtStart = null

\* C9 as stated: a call that finds the cache populated is served from it, and
\* two sequential calls without a reset between them perform exactly one
\* provider request in total.
C9_ExactlyOneRequest ==
    /\ \A p \in Procs : ServedFromCache(call[p])
    /\ \A a, b \in Procs :
          Sequential(a, b) => call[a].nreq + call[b].nreq = 1

\* C9 as amended: the second of two such calls performs no provider request
\* and no preference read, so the two perform the requests of the first call,
\* one per attempt: between 1 and 3.
C9_SecondCallAddsNoRequest ==
    /\ \A p \in Procs : ServedFromCache(call[p])
    /\ \A a, b \in Procs :
          Sequential(a, b) =>
              /\ call[b].cacheAtStart # null
              /\ call[b].nreq = 0 /\ call[b].prefReads = 0
              /\ call[a].nreq \in 1..3
              /\ call[a].nreq + call[b].nreq = call[a].nreq

C9_Witness ==
    \E a, b \in Procs :
        /\ Sequential(a, b)
        /\ call[a].nreq = 2
        /\ call[b].nreq = 0
        /\ call[b].result = call[a].result

\* C10: the first generateUserSkillsEmbedding call started after a reset, with
\* no other call in flight, finds the cache empty and reads the preference
\* store again; a vector it returns comes from a new provider request.
C10_RecomputesAfterReset ==
    \A p \in Procs :
        LET c == call[p]
        IN  (IsSkillsCall(c) /\ c.firstAfterReset) =>
                /\ c.cacheAtStart = null
                /\ c.prefReads = 1
                /\ c.outcome = "returned" => c.nreq >= 1

\* C11: when the lookup of a call that found the cache empty reports an
\* error, finds no record or finds an empty skills list, the call fails there
\* with the ConfigError, has issued no provider request, and the step does
\* not write the cache (an empty cache stays empty).
C11_UnusablePrefsFail ==
    [][\A p \in Procs :
          (call[p].pc = "awaitPrefs"
           /\ call'[p].lookup \in {"error", "missing", "empty"}) =>
              /\ call[p].cacheAtStart = null
              /\ call'[p].pc = "done" /\ call'[p].outcome = "threw"
              /\ call'[p].error.type = "PrefsNotSet"
              /\ ErrorClass(call'[p].error) = "ConfigError"
              /\ call'[p].nreq = 0
              /\ cachedUserSkillsEmbedding' = cachedUserSkillsEmbedding]_vars

C11_Witness ==
    \E p \in Procs :
        /\ call[p].lookup = "empty"
        /\ call[p].pc = "done"
        /\ call[p].nreq = 0
        /\ cachedUserSkillsEmbedding = null

\* Within a generateEmbedding call with the credential set: between 1 and 3
\* requests have been issued; at most one of them has no response yet, and
\* then every earlier request has completed and its wait has elapsed; while a
\* timer is pending no request is outstanding.
SequentialAttempts ==
    \A p \in Procs :
        LET c == call[p]
            n == Len(c.statuses)
        IN  (c.fn = "generateEmbedding" /\ JINA_API_KEY) =>
                /\ c.nreq \in 1..3
                /\ c.nreq - n \in {0, 1}
                /\ c.nreq - n = 1 <=> c.pc = "awaitFetch"
                /\ c.pc = "awaitFetch" => (Len(c.waits) = n /\ c.delay = 0)
                /\ c.pc = "awaitTimer" => (c.nreq = n /\ Len(c.waits) = n)

\* C12: with the credential set, and every request and timer eventually
\* completing, each generateEmbedding call ends (returns or throws) after 1 to
\* 3 requests, its attempts strictly one after the other.
C12_TerminatesSequentially ==
    /\ []SequentialAttempts
    /\ \A p \in Procs :
          (call[p].fn = "generateEmbedding") ~>
              (call[p].pc = "done" /\ call[p].outcome \in {"returned", "threw"})

C12_Witness ==
    \E p \in Procs :
        /\ JINA_API_KEY
        /\ call[p].fn = "generateEmbedding"
        /\ call[p].pc = "done"
        /\ call[p].nreq = 3
        /\ Len(call[p].waits) = 2

\* Calls a and b ran concurrently (neither started after the other had
\* ended), both found the cache empty, both returned a vector, and no reset
\* happened meanwhile.
Raced(a, b) ==
    /\ a # b
    /\ IsSkillsCall(call[a]) /\ IsSkillsCall(call[b])
    /\ call[a].pc = "done" /\ call[a].outcome = "returned"
    /\ call[b].pc = "done" /\ call[b].outcome = "returned"
    /\ a \notin call[b].after /\ b \notin call[a].after
    /\ call[a].cacheAtStart = null /\ call[b].cacheAtStart = null
    /\ ~call[a].resetSince /\ ~call[b].resetSince

\* C14: two concurrent getUserSkillsEmbedding calls that both see an empty
\* cache both read the preferences and both go to the provider; the cache
\* holds the value written last, and the two written values are equal.
C14_RaceWritesEqual ==
    \A a, b \in Procs :
        Raced(a, b) =>
            /\ call[a].prefReads = 1 /\ call[b].prefReads = 1
            /\ call[a].nreq >= 1 /\ call[b].nreq >= 1
            /\ cachedUserSkillsEmbedding \in {call[a].result, call[b].result}
            /\ call[a].result = call[b].result

---------------------------------------------------------------------------
(* The trigger control's result *)

\* The count the success message shows for a field of the response body.
Shown(x) == IF x > 0 THEN x ELSE 0

\* The terminal result on display was computed from trigger.resp.
TerminalResult == trigger.result.set

\* C13 (as stated): the terminal result is a success message if and only if
\* the POST returned a 2xx status and its body was parsed without an
\* exception; the counts shown are scraped.jobsScraped and processed.success,
\* each 0 when absent; anything else yields a failure result.
C13_SuccessIffParsed ==
    TerminalResult =>
        LET r == trigger.resp
            res == trigger.result
        IN  /\ res.success <=> /\ r.rejected = "no"
                               /\ r.status \in 200..299
                               /\ r.body.kind # "unparseable"
            /\ res.success => /\ res.jobsScraped = Shown(r.body.jobsScraped)
                              /\ res.jobsProcessed = Shown(r.body.success)

\* C13 (amended): the terminal result is a success message if and only if
\* the POST returned a 2xx status and nothing was thrown while parsing the
\* body and reading the counts from it, which excludes a body that parses
\* to null; the counts shown are scraped.jobsScraped and processed.success,
\* each 0 when absent; anything else yields a failure result.
C13_SuccessIffNothingThrown ==
    TerminalResult =>
        LET r == trigger.resp
            res == trigger.result
        IN  /\ res.success <=> /\ r.rejected = "no"
                               /\ r.status \in 200..299
                               /\ r.body.kind = "object"
            /\ res.success => /\ res.jobsScraped = Shown(r.body.jobsScraped)
                              /\ res.jobsProcessed = Shown(r.body.success)
            /\ ~res.success => /\ res.text # ""
                               /\ res.jobsScraped = 0 /\ res.jobsProcessed = 0

\* A 2xx response with one count absent and one present has been shown as a
\* success.
C13_Witness ==
    /\ TerminalResult /\ trigger.result.success
    /\ trigger.resp.status = 201
    /\ trigger.resp.body.jobsScraped = absent
    /\ trigger.resp.body.success = 5
    /\ trigger.result.jobsScraped = 0 /\ trigger.result.jobsProcessed = 5

---------------------------------------------------------------------------
(* The trigger control's life cycle *)

\* One POST has been issued per activation, the busy flag is set exactly
\* while a POST is outstanding, and once an activation has ended a terminal
\* message is on display.
OnePostPerActivation ==
    /\ trigger.posts = MaxClicks - trigger.clicksLeft
    /\ trigger.isLoading <=> trigger.pending > 0
    /\ (trigger.posts > 0 /\ trigger.pending = 0) =>
           (~trigger.isLoading /\ trigger.result.set)

\* C15: each activation issues exactly one POST; the busy flag is true from
\* the start of the activation until the call completes; every activation
\* eventually ends with the busy flag false and a terminal message set.
C15_OnePostThenTerminal ==
    /\ []OnePostPerActivation
    /\ trigger.isLoading ~> (~trigger.isLoading /\ trigger.result.set)

\* The second activation has ended in a failure message.
C15_Witness ==
    /\ trigger.posts = 2 /\ trigger.pending = 0
    /\ ~trigger.isLoading
    /\ trigger.result.set /\ ~trigger.result.success

\* C18: while a trigger call is in flight the control is disabled, at most
\* one POST is outstanding, and an activation starts only when the busy flag
\* is false.
C18_OneOutstanding ==
    /\ [](/\ trigger.pending <= 1
          /\ trigger.pending = 1 => (trigger.isLoading /\ Disabled))
    /\ [][trigger'.posts > trigger.posts =>
              (~trigger.isLoading /\ trigger.pending = 0)]_vars

\* The second activation is in flight, started after the first one ended.
C18_Witness ==
    /\ trigger.posts = 2 /\ trigger.pending = 1
    /\ trigger.isLoading
    /\ trigger.resp # NoPipelineResponse

---------------------------------------------------------------------------
(* The end of the retry loop *)

\* C19: every generateEmbedding execution ends by returning from inside the
\* loop, by throwing from the catch block on attempt 3, or by the key check;
\* the throw after the loop (line 99) is never reached.
C19_FallbackUnreachable ==
    \A p \in Procs :
        LET c == call[p]
        IN  c.fn = "generateEmbedding" =>
                /\ c.error.type # "Exhausted"
                /\ c.attempt <= maxRetries
                /\ c.pc = "awaitTimer" => c.attempt < maxRetries
                /\ c.pc = "done" =>
                      \/ c.outcome = "returned" /\ c.attempt \in 1..maxRetries
                      \/ /\ c.outcome = "threw" /\ c.attempt = maxRetries
                         /\ c.error.type \notin {"KeyNotSet", "Exhausted"}
                      \/ /\ c.outcome = "threw" /\ c.attempt = 0
                         /\ c.error.type = "KeyNotSet"

\* Attempt 3 was answered 429 and the call threw from the catch block.
C19_Witness ==
    \E p \in Procs :
        /\ call[p].fn = "generateEmbedding" /\ call[p].pc = "done"
        /\ call[p].outcome = "threw" /\ call[p].attempt = 3
        /\ Len(call[p].statuses) = 3 /\ call[p].statuses[3] = 429
        /\ call[p].error.type = "ApiStatus"

---------------------------------------------------------------------------
(* The cache as a whole, checked under SpecAll and Spec *)

\* Call p ends in this step by returning a vector / by throwing.
ReturnsNow(p) ==
    call[p].pc # "done" /\ call'[p].pc = "done" /\ call'[p].outcome = "returned"
ThrowsNow(p) ==
    call[p].pc # "done" /\ call'[p].pc = "done" /\ call'[p].outcome = "threw"

\* The cache is empty or holds a vector of 768 numbers.
CacheShape ==
    \/ cachedUserSkillsEmbedding = null
    \/ cachedUserSkillsEmbedding.len = EmbeddingDim

\* A step that changes the cache either empties it or stores the vector that
\* a generateEmbedding call made by generateUserSkillsEmbedding returns in
\* that step.
CacheWrittenOnlyByAccessor ==
    cachedUserSkillsEmbedding' # cachedUserSkillsEmbedding =>
        \/ cachedUserSkillsEmbedding' = null
        \/ \E p \in Procs :
              /\ IsSkillsCall(call[p]) /\ call[p].pc = "awaitFetch"
              /\ ReturnsNow(p)
              /\ call'[p].result = cachedUserSkillsEmbedding'
              /\ cachedUserSkillsEmbedding'.len = EmbeddingDim

\* A call that fails, in the lookup or in generateEmbedding, and a direct
\* generateEmbedding call that ends, leave the cache as it was.
OthersLeaveCache ==
    \A p \in Procs :
        (ThrowsNow(p) \/ (call[p].fn = "generateEmbedding" /\ ReturnsNow(p))) =>
            cachedUserSkillsEmbedding' = cachedUserSkillsEmbedding

\* A direct generateEmbedding call goes to the provider whatever the cache
\* holds.
DirectCallIgnoresCache ==
    \A p \in Procs :
        (call[p].fn = "generateEmbedding" /\ ~KeyMissing) =>
            /\ call[p].nreq >= 1
            /\ call[p].prefReads = 0

\* C16: the cache is empty or holds a vector of length 768 returned by a
\* generateEmbedding call made by generateUserSkillsEmbedding; failed calls
\* never write it, a direct generateEmbedding call neither reads nor writes
\* it, and only a successful derivation and clearUserSkillsCache change it.
C16_CacheDiscipline ==
    /\ [](CacheShape /\ DirectCallIgnoresCache)
    /\ [][CacheWrittenOnlyByAccessor /\ OthersLeaveCache]_vars

\* A direct call has returned a vector other than the one the cache holds.
C16_Witness ==
    \E p \in Procs :
        /\ call[p].fn = "generateEmbedding"
        /\ call[p].pc = "done" /\ call[p].outcome = "returned"
        /\ cachedUserSkillsEmbedding # null
        /\ cachedUserSkillsEmbedding # call[p].result

\* C17: once clearUserSkillsCache has been called, a derivation whose
\* preference read happened before that reset no longer reaches the cache.
C17_ResetInvalidatesInFlight ==
    [][\A p \in Procs :
          (call[p].readBeforeReset /\ ReturnsNow(p)) =>
              cachedUserSkillsEmbedding' = cachedUserSkillsEmbedding]_vars
====
